---- MODULE Spec2Model ----
(***************************************************************************)
(* A model of rimmods (src/src/main.rs): main, steamcmd_download and       *)
(* load_mods.  Strings are sequences of one-character strings, so that     *)
(* split, starts_with, replace, parse and format are computed as the code  *)
(* computes them.                                                          *)
(***************************************************************************)
EXTENDS Integers, Sequences, FiniteSets, TLC

VARIABLES
    pc,          \* position of main: see PcValues
    err,         \* why the run ended when pc = "aborted" ("none" otherwise)
    args,        \* Args after parsing plus what is_dir()/is_file() answer at startup
    manifest,    \* the rows of mods.txt, each the name of a row of RowTable
    mods,        \* the Vec<RimMod> load_mods returned
    idx,         \* 1-based index in mods of the item the for loop is at
    dest,        \* mods_dir/<name>  : Absent or the set of relative paths below it
    stag,        \* steam_dir/<name> : Absent or the set of relative paths below it
    loginSent,   \* how many times "login anonymous" was written to steam_stdin
    loggedIn,    \* the login loop has read its marker
    sent,        \* the download commands written by the retry loop that is running
    requested,   \* indices of the items for which a download command was written
    closed,      \* steamcmd's stdout has reached end-of-stream
    lastLine,    \* what the read_line returned on which a read loop was last left
    attempt,     \* i of `for i in 0..3`, 0 outside the loop
    pollI,       \* i of `for i in 0..10`, 0 outside the loop
    waited,      \* milliseconds slept by the current item's poll loop
    checks,      \* steam_path.is_dir() calls made by the current item's poll loop
    observed,    \* the current item's poll loop saw the staging directory
    readItems,   \* indices of the items for which read_line was called
    preDest,     \* preDest[k]: dest of item k when the loop reached it
    preStag,     \* preStag[k]: stag of item k when the loop reached it
    loginEof,    \* a read_line of the login loop returned end-of-stream
    spawns,      \* how many times steamcmd was spawned
    loaded,      \* load_mods has been called
    fs0,         \* dest and stag as they were when the run started
    run,         \* 1 in a first run of the program, 2 in a run that follows it
    firstEnd     \* in a second run: how the first one ended (NoRun in a first run)

vars == <<pc, err, args, manifest, mods, idx, dest, stag, loginSent, loggedIn, sent,
          requested, closed, lastLine, attempt, pollI, waited, checks, observed,
          readItems, preDest, preStag, loginEof, spawns, loaded, fs0, run, firstEnd>>

----------------------------------------------------------------------------
(* Bounds of the model *)

\* longest mods.txt, in rows, of a whole run
MaxItems == 2
\* longest mods.txt, in rows, given to load_mods alone
MaxLoadRows == 2

----------------------------------------------------------------------------
(* Strings *)

Digits == <<"0","1","2","3","4","5","6","7","8","9">>

IsDigit(c) == \E i \in 1..10 : Digits[i] = c

DigitVal(c) == (CHOOSE i \in 1..10 : Digits[i] = c) - 1

RECURSIVE FormatNat(_)
FormatNat(n) ==
    IF n < 10 THEN <<Digits[n + 1]>>
    ELSE FormatNat(n \div 10) \o <<Digits[(n % 10) + 1]>>

\* format!("{}", id) of an i64
FormatI64(n) == IF n < 0 THEN <<"-">> \o FormatNat(0 - n) ELSE FormatNat(n)

\* str::starts_with(prefix)
StartsWith(s, p) == Len(p) <= Len(s) /\ SubSeq(s, 1, Len(p)) = p

\* the first index at which pat occurs in s, 0 when it does not occur
FindStr(s, pat) ==
    LET hits == {i \in 1..(Len(s) - Len(pat) + 1) : SubSeq(s, i, i + Len(pat) - 1) = pat}
    IN IF hits = {} THEN 0 ELSE CHOOSE i \in hits : \A j \in hits : i <= j

\* str::split(pat).collect::<Vec<_>>()
RECURSIVE SplitStr(_, _)
SplitStr(s, pat) ==
    LET i == FindStr(s, pat)
    IN IF i = 0 THEN <<s>>
       ELSE <<SubSeq(s, 1, i - 1)>> \o SplitStr(SubSeq(s, i + Len(pat), Len(s)), pat)

\* [String]::join(sep)
RECURSIVE JoinStr(_, _)
JoinStr(parts, sep) ==
    IF Len(parts) = 0 THEN <<>>
    ELSE IF Len(parts) = 1 THEN parts[1]
    ELSE parts[1] \o sep \o JoinStr(Tail(parts), sep)

\* String::replace(c, "")
RECURSIVE RemoveChar(_, _)
RemoveChar(s, c) ==
    IF s = <<>> THEN <<>>
    ELSE (IF Head(s) = c THEN <<>> ELSE <<Head(s)>>) \o RemoveChar(Tail(s), c)

RECURSIVE DigitsValue(_, _)
DigitsValue(s, acc) ==
    IF s = <<>> THEN acc ELSE DigitsValue(Tail(s), acc * 10 + DigitVal(Head(s)))

\* str::parse::<i64>(): an optional sign, then one digit or more.  The rows of
\* this model carry at most three digits, so the overflow error of parse (a value
\* outside i64) cannot occur and is not modelled.
ParseI64(s) ==
    LET signed == s # <<>> /\ Head(s) \in {"+", "-"}
        body == IF signed THEN Tail(s) ELSE s
        neg == signed /\ Head(s) = "-"
        wellformed == body # <<>> /\ \A i \in 1..Len(body) : IsDigit(body[i])
        mag == DigitsValue(body, 0)
    IN IF wellformed
       THEN [ok |-> TRUE, val |-> IF neg THEN 0 - mag ELSE mag]
       ELSE [ok |-> FALSE, val |-> 0]

----------------------------------------------------------------------------
(* load_mods *)

IdMarker == <<"?","i","d","=">>

\* One row of mods.txt: Ok(RimMod), Err(ParseIntError) or the panic of expect("Mod Id")
ParseRow(row) ==
    LET parts == SplitStr(row, <<" ">>)
        url == parts[1]
        name == JoinStr(SubSeq(parts, 2, Len(parts)), <<" ">>)
        url_split == SplitStr(url, IdMarker)
    IN IF Len(url_split) < 2 THEN [status |-> "panic"]
       ELSE LET id == ParseI64(url_split[2])
            IN IF id.ok THEN [status |-> "ok", mod |-> [name |-> name, id |-> id.val, url |-> url]]
               ELSE [status |-> "err"]

\* the for loop of load_mods over rows, with the items pushed so far
RECURSIVE LoadRows(_, _)
LoadRows(rows, acc) ==
    IF rows = <<>> THEN [status |-> "ok", mods |-> acc]
    ELSE LET r == ParseRow(Head(rows))
         IN IF r.status = "ok" THEN LoadRows(Tail(rows), Append(acc, r.mod))
            ELSE [status |-> r.status, mods |-> <<>>]

load_mods(rows) == LoadRows(rows, <<>>)

----------------------------------------------------------------------------
(* The rows mods.txt is drawn from.  shape labels how the row was built; the *)
(* program reads text only.                                                  *)

Row(text, shape, ids) == [text |-> text, shape |-> shape, ids |-> ids]

\* "u?id=12 A", "u?id=123 B C", "u?id=-12 A": a reference and a name
\* "u?id=12": no name;  "u A", "": no "?id=";  "u?id=x A", "u?id= A": no integer
RowTable ==
    [ok12     |-> Row(<<"u","?","i","d","=","1","2"," ","A">>, "wellformed", {12}),
     ok123    |-> Row(<<"u","?","i","d","=","1","2","3"," ","B"," ","C">>, "wellformed", {123}),
     neg12    |-> Row(<<"u","?","i","d","=","-","1","2"," ","A">>, "wellformed", {0 - 12}),
     noname   |-> Row(<<"u","?","i","d","=","1","2">>, "noname", {12}),
     nomarker |-> Row(<<"u"," ","A">>, "nomarker", {}),
     empty    |-> Row(<<>>, "nomarker", {}),
     badid    |-> Row(<<"u","?","i","d","=","x"," ","A">>, "badid", {}),
     noid     |-> Row(<<"u","?","i","d","="," ","A">>, "badid", {})]

\* rows of the manifests given to load_mods alone
LoadRowPool == {"ok12", "ok123", "neg12", "noname", "nomarker", "empty", "badid", "noid"}

\* rows of the manifests of whole runs
RunRowPool == {"ok12", "ok123", "nomarker", "badid"}

RunIds == {12, 123}

SeqsUpTo(S, n) == UNION {[1..k -> S] : k \in 0..n}

\* BufReader::lines() of mods.txt
Texts(rows) == [i \in 1..Len(rows) |-> RowTable[rows[i]].text]

----------------------------------------------------------------------------
(* Directories.  A directory is a record: whether it exists, and the set of  *)
(* relative paths below it (a path is a sequence of names, a name a string   *)
(* of characters).                                                           *)

Absent == [exists |-> FALSE, entries |-> {}]

EmptyDir == [exists |-> TRUE, entries |-> {}]

\* an entry left by an earlier run, and the entry steamcmd downloads
OldEntry == <<<<"o">>>>
NewEntry == <<<<"a">>>>

OldDir == [exists |-> TRUE, entries |-> {OldEntry}]

DirInit == {Absent, EmptyDir, OldDir}

\* Path::is_dir()
is_dir(d) == d.exists

\* fs::read_dir(p)?.count(): the entries directly below p
read_dir_count(d) == Cardinality({p \in d.entries : Len(p) = 1})

\* format!("{}", rimmod.id), the name joined to mods_dir and to steam_dir
DirName(id) == FormatI64(id)

Names == {DirName(i) : i \in RunIds}

\* the copy with CopyOptions::content_only: the entries of `from` arrive in `to`
\* itself, and no directory named after `from` is made
copy_itemsContentOnly(name, from, to) ==
    IF is_dir(from)
    THEN [ok |-> TRUE,
          to |-> [exists |-> TRUE, entries |-> to.entries \cup from.entries]]
    ELSE [ok |-> FALSE, to |-> to]

\* fs_extra::copy_items(&[from], to, &CopyOptions::new()), from named `name`.
\* A source that is a directory is copied as the directory to/<name> (copy_inside
\* and content_only are false by default), with everything below it; a source that
\* is no directory is copied as a file, which fails when it does not exist.
\* Wherever main calls copy_items, `to` is empty or was just created, so that the
\* error of an already existing target file (overwrite is false) cannot occur.
copy_items(name, from, to) ==
    IF is_dir(from)
    THEN [ok |-> TRUE,
          to |-> [exists |-> TRUE,
                  entries |-> to.entries \cup {<<name>>}
                              \cup {<<name>> \o p : p \in from.entries}]]
    ELSE [ok |-> FALSE, to |-> to]

\* mods_dir/<id> after `if !mod_path.is_dir() { create_dir(&mod_path)?; }`
EnsureDir(d) == IF is_dir(d) THEN d ELSE EmptyDir

----------------------------------------------------------------------------------------------------------------------------------------------
(* The lines steamcmd may print.  A line is named by a kind and an id, and   *)
(* Raw gives its characters, which is all the program reads.                 *)

LoginMarker == <<"W","a","i","t","i","n","g"," ","f","o","r"," ","u","s","e","r"," ","i","n","f","o",".",".",".","O","K">>

SuccessText == <<"S","u","c","c","e","s","s","."," ","D","o","w","n","l","o","a","d","e","d"," ","i","t","e","m"," ">>

ErrorText == <<"E","R","R","O","R","!"," ","D","o","w","n","l","o","a","d"," ","i","t","e","m"," ">>

\* format!("Success. Downloaded item {} to", rimmod.id)
SuccessPrefix(id) == SuccessText \o FormatI64(id) \o <<" ","t","o">>

\* format!("ERROR! Download item {} failed", rimmod.id)
ErrorPrefix(id) == ErrorText \o FormatI64(id) \o <<" ","f","a","i","l","e","d">>

Line(kind, id) == [kind |-> kind, id |-> id]

NoLine == Line("none", 0)

\* read_line at end-of-stream: Ok(0), nothing appended
EofLine == Line("eof", 0)

\* read_line returning Err
IoErr == Line("ioerr", 0)

LoginOkLine == Line("login_ok", 0)

\* lines that start with the marker, or contain it, and are not equal to it
LoginLongLine == Line("login_long", 0)
LoginInnerLine == Line("login_inner", 0)

SuccessLine(id) == Line("success", id)

ErrorLine(id) == Line("error", id)

OtherLine == Line("other", 0)

\* the bytes read_line appends for a line
Raw(l) ==
    CASE l.kind = "login_ok" -> LoginMarker \o <<"\n">>
      [] l.kind = "login_long" -> LoginMarker \o <<"!","\n">>
      [] l.kind = "login_inner" -> <<" ">> \o LoginMarker \o <<"\n">>
      [] l.kind = "success" ->
            SuccessText \o FormatI64(l.id) \o <<" ","t","o"," ","/","s","/">>
            \o FormatI64(l.id) \o <<"\n">>
      [] l.kind = "error" ->
            ErrorText \o FormatI64(l.id)
            \o <<" ","f","a","i","l","e","d"," ","(","F","a","i","l","u","r","e",")",".","\n">>
      [] l.kind = "other" ->
            <<"L","o","a","d","i","n","g"," ","S","t","e","a","m"," ","A","P","I",".",".",".","O","K","\n">>
      [] OTHER -> <<>>

LinePool ==
    {LoginOkLine, LoginLongLine, LoginInnerLine, OtherLine}
    \cup {SuccessLine(i) : i \in RunIds} \cup {ErrorLine(i) : i \in RunIds}

\* What one BufReader::read_line call can return: a line, an I/O error, or
\* end-of-stream, and after end-of-stream nothing but end-of-stream.
ReadOutcomes(isClosed) ==
    IF isClosed THEN {EofLine}
    ELSE LinePool \cup {EofLine, IoErr}

\* line.replace('\n', "")
StripNewline(raw) == RemoveChar(raw, "\n")

\* the test written with starts_with in place of ==
IsLoginMarkerPrefix(line) == StartsWith(line, LoginMarker)

\* the login loop's test of one line
IsLoginMarker(line) == line = LoginMarker

\* the tests with the patterns cut after the identifier
MatchLineBareId(line, id) ==
    IF StartsWith(line, SuccessText \o FormatI64(id)) THEN "success"
    ELSE IF StartsWith(line, ErrorText \o FormatI64(id)) THEN "failed"
    ELSE "other"

\* the tests when every error line counts as the failure of the item asked for
MatchLineAnyError(line, id) ==
    IF StartsWith(line, SuccessPrefix(id)) THEN "success"
    ELSE IF StartsWith(line, ErrorText) THEN "failed"
    ELSE "other"

\* steamcmd_download's tests of one line: "success", "failed" or "other"
MatchLine(line, id) ==
    IF StartsWith(line, SuccessPrefix(id)) THEN "success"
    ELSE IF StartsWith(line, ErrorPrefix(id)) THEN "failed"
    ELSE "other"

----------------------------------------------------------------------------
(* Program constants *)

RIMWORLD_GAME_ID == 294100
\* for i in 0..3
MaxAttempts == 3
\* for i in 0..10
PollChecks == 10
\* Duration::from_millis(i * 250)
PollUnitMs == 250

DownloadCmd(id, k) ==
    [cmd |-> "workshop_download_item", app |-> RIMWORLD_GAME_ID, id |-> id, item |-> k]

----------------------------------------------------------------------------
(* main *)

pollVars == <<pollI, waited, checks, observed>>
histVars == <<readItems, preDest, preStag, loginEof>>
sentVars == <<loginSent, loggedIn, sent, requested>>
orderVars == <<spawns, loaded>>
runVars == <<fs0, run, firstEnd>>

\* firstEnd when no run came before
NoRun == [pc |-> "none", clean |-> FALSE, dest |-> [n \in Names |-> Absent], requested |-> {}]

\* the checks without the one of the manifest file
ArgsOkWithoutManifest(a) == a.mods_dir_is_dir /\ a.steam_dir_is_dir

ArgsOk(a) == a.mods_dir_is_dir /\ a.steam_dir_is_dir /\ a.modlist_is_file

\* The directories below a root at the start of a run.  Only the directories of
\* identifiers the manifest lists vary: the run never looks at another one.
InitDirs(rootIsDir, rows) ==
    LET listed == {DirName(i) : i \in UNION {RowTable[rows[k]].ids : k \in 1..Len(rows)}}
    IN {f \in [Names -> DirInit] :
           \A n \in Names : (~rootIsDir \/ n \notin listed) => f[n] = Absent}

\* The rows whose directories may be there at the start.  A run that stops at
\* the checks of its arguments reads no manifest: any directory may be there.
InitRows(a, rows) == IF ArgsOk(a) THEN rows ELSE <<"ok12", "ok123">>

Init ==
    /\ pc = "start"
    /\ err = "none"
    /\ args \in [clean : BOOLEAN, mods_dir_is_dir : BOOLEAN,
                 steam_dir_is_dir : BOOLEAN, modlist_is_file : BOOLEAN]
    /\ manifest \in (IF ArgsOk(args) THEN SeqsUpTo(RunRowPool, MaxItems) ELSE {<<>>})
    /\ mods = <<>>
    /\ idx = 0
    /\ dest \in InitDirs(args.mods_dir_is_dir, InitRows(args, manifest))
    /\ stag \in InitDirs(args.steam_dir_is_dir, InitRows(args, manifest))
    /\ loginSent = 0 /\ loggedIn = FALSE
    /\ sent = <<>> /\ requested = {}
    /\ closed = FALSE
    /\ lastLine = NoLine
    /\ attempt = 0
    /\ pollI = 0 /\ waited = 0 /\ checks = 0 /\ observed = FALSE
    /\ readItems = {}
    /\ preDest = <<>> /\ preStag = <<>>
    /\ loginEof = FALSE
    /\ spawns = 0 /\ loaded = FALSE
    /\ fs0 = [dest |-> dest, stag |-> stag]
    /\ run = 1 /\ firstEnd = NoRun

\* the manifest is loaded right after the checks of the arguments
AfterChecksLoadsFirst == "load"

\* main.rs 57-59: what follows the checks of the arguments: steamcmd is spawned
AfterChecks == "spawn"

\* main.rs 42-55: the three checks of the arguments
Startup ==
    /\ pc = "start"
    /\ IF ArgsOk(args)
       THEN pc' = AfterChecks /\ err' = err
       ELSE pc' = "aborted" /\ err' = "config"
    /\ UNCHANGED <<args, manifest, orderVars, runVars, mods, idx, dest, stag, sentVars, closed, lastLine,
                   attempt, pollVars, histVars>>

\* main.rs 59-65: Command::new("steamcmd")...spawn()?
Spawn ==
    /\ pc = "spawn"
    /\ \E started \in BOOLEAN :
          IF started THEN pc' = "login_write" /\ err' = err /\ spawns' = spawns + 1
          ELSE pc' = "aborted" /\ err' = "launch" /\ spawns' = spawns
    /\ UNCHANGED <<args, manifest, loaded, runVars, mods, idx, dest, stag, sentVars, closed, lastLine,
                   attempt, pollVars, histVars>>

\* main.rs 70: writeln!(steam_stdin, "login anonymous")?
LoginWrite ==
    /\ pc = "login_write"
    /\ \E written \in BOOLEAN :
          IF written
          THEN pc' = "login_read" /\ err' = err /\ loginSent' = loginSent + 1
          ELSE pc' = "aborted" /\ err' = "io" /\ loginSent' = loginSent
    /\ UNCHANGED <<args, manifest, orderVars, runVars, mods, idx, dest, stag, loggedIn, sent, requested,
                   closed, lastLine, attempt, pollVars, histVars>>

\* main.rs 71-82: one turn of the login loop
LoginRead ==
    /\ pc = "login_read"
    /\ \E got \in ReadOutcomes(closed) :
          /\ closed' = (closed \/ got.kind = "eof")
          /\ loginEof' = (loginEof \/ got.kind = "eof")
          /\ IF got.kind = "ioerr"
             THEN pc' = "aborted" /\ err' = "io" /\ lastLine' = got /\ loggedIn' = loggedIn
             ELSE IF IsLoginMarker(StripNewline(Raw(got)))
             THEN pc' = "load" /\ err' = err /\ lastLine' = got /\ loggedIn' = TRUE
             ELSE UNCHANGED <<pc, err, lastLine, loggedIn>>
    /\ UNCHANGED <<args, manifest, orderVars, runVars, mods, idx, dest, stag, loginSent, sent, requested,
                   attempt, pollVars, readItems, preDest, preStag>>

\* main.rs 84-88: let mods = load_mods(&modlist_path)?
Load ==
    /\ pc = "load"
    /\ LET r == load_mods(Texts(manifest))
       IN IF r.status = "ok" THEN pc' = "item" /\ err' = err /\ mods' = r.mods /\ idx' = 1
          ELSE /\ pc' = "aborted"
               /\ err' = (IF r.status = "panic" THEN "panic" ELSE "manifest")
               /\ mods' = mods /\ idx' = idx
    /\ loaded' = TRUE
    /\ UNCHANGED <<args, manifest, spawns, runVars, dest, stag, sentVars, closed, lastLine, attempt,
                   pollVars, histVars>>

\* the decision with `count() > 1` for the destination
ItemDecisionSkipOffByOne(d, s, clean) ==
    IF is_dir(d) /\ ~clean /\ read_dir_count(d) > 1 THEN "skip"
    ELSE IF is_dir(s) /\ ~clean /\ read_dir_count(s) > 0 THEN "reuse"
    ELSE "download"

\* the decision without the branch that reuses the staging directory
ItemDecisionNoReuse(d, s, clean) ==
    IF is_dir(d) /\ ~clean /\ read_dir_count(d) > 0 THEN "skip"
    ELSE "download"

\* the decision when an item is skipped only while its staging directory is
\* still there
ItemDecisionSkipNeedsStaging(d, s, clean) ==
    IF is_dir(d) /\ ~clean /\ read_dir_count(d) > 0 /\ is_dir(s) THEN "skip"
    ELSE IF is_dir(s) /\ ~clean /\ read_dir_count(s) > 0 THEN "reuse"
    ELSE "download"

\* main.rs 94-116: what the loop does with an item, from the two directories
ItemDecision(d, s, clean) ==
    IF is_dir(d) /\ ~clean /\ read_dir_count(d) > 0 THEN "skip"
    ELSE IF is_dir(s) /\ ~clean /\ read_dir_count(s) > 0 THEN "reuse"
    ELSE "download"

\* remove_dir_all only for a directory that is not empty
AfterCleanNonEmptyOnly(d, clean) ==
    IF is_dir(d) /\ clean /\ read_dir_count(d) > 0 THEN Absent ELSE d

\* remove_dir_all whatever the flag
AfterCleanAlways(d, clean) == IF is_dir(d) THEN Absent ELSE d

\* main.rs 94-97 and 104-107: remove_dir_all under --clean
AfterClean(d, clean) == IF is_dir(d) /\ clean THEN Absent ELSE d

curId == mods[idx].id
curName == DirName(curId)

AtItem == pc = "item" /\ idx <= Len(mods)

Reached ==
    /\ preDest' = Append(preDest, dest[curName])
    /\ preStag' = Append(preStag, stag[curName])

\* main.rs 98-100: the destination is not empty: continue
ItemSkip ==
    /\ AtItem
    /\ ItemDecision(dest[curName], stag[curName], args.clean) = "skip"
    /\ Reached
    /\ idx' = idx + 1
    /\ UNCHANGED <<pc, err, args, manifest, orderVars, runVars, mods, dest, stag, sentVars, closed, lastLine,
                   attempt, pollVars, readItems, loginEof>>

\* main.rs 108-114: the staging directory is not empty: copy it and continue
ItemReuse ==
    /\ AtItem
    /\ ItemDecision(dest[curName], stag[curName], args.clean) = "reuse"
    /\ Reached
    /\ LET r == copy_items(curName, stag[curName], EnsureDir(dest[curName]))
       IN IF r.ok
          THEN /\ dest' = [dest EXCEPT ![curName] = r.to]
               /\ idx' = idx + 1 /\ pc' = pc /\ err' = err
          ELSE /\ dest' = [dest EXCEPT ![curName] = r.to]
               /\ idx' = idx /\ pc' = "aborted" /\ err' = "fs"
    /\ UNCHANGED <<args, manifest, orderVars, runVars, mods, stag, sentVars, closed, lastLine,
                   attempt, pollVars, readItems, loginEof>>

\* main.rs 94-120: neither directory satisfies the item: go and download it
ItemDownload ==
    /\ AtItem
    /\ ItemDecision(dest[curName], stag[curName], args.clean) = "download"
    /\ Reached
    /\ dest' = [dest EXCEPT ![curName] = AfterClean(dest[curName], args.clean)]
    /\ stag' = [stag EXCEPT ![curName] = AfterClean(stag[curName], args.clean)]
    /\ pc' = "dl_write"
    /\ attempt' = 0
    /\ UNCHANGED <<err, args, manifest, orderVars, runVars, mods, idx, sentVars, closed, lastLine,
                   pollVars, readItems, loginEof>>

\* the retry loop written `for i in 0..=3`
AfterFailureOneMore(i) ==
    IF i + 1 < MaxAttempts + 1
    THEN [pc |-> "dl_write", err |-> "none", attempt |-> i + 1]
    ELSE [pc |-> "aborted", err |-> "download", attempt |-> i + 1]

\* main.rs 123-126 and 134-136: an attempt ended in Err: the next i, or bail!
AfterFailure(i) ==
    IF i + 1 < MaxAttempts
    THEN [pc |-> "dl_write", err |-> "none", attempt |-> i + 1]
    ELSE [pc |-> "aborted", err |-> "download", attempt |-> i + 1]

FailAttempt ==
    LET n == AfterFailure(attempt)
    IN pc' = n.pc /\ err' = n.err /\ attempt' = n.attempt

\* a channel error ends the run at once
ChannelErrorAborts == pc' = "aborted" /\ err' = "io" /\ attempt' = attempt

\* main.rs 163 and 166: the `?` makes steamcmd_download return Err, which the
\* retry loop takes in its `Err(_)` arm like a Failed response
ChannelError == FailAttempt

\* main.rs 163: writeln!(steam_stdin, "workshop_download_item {} {}", ...)?
DlWrite ==
    /\ pc = "dl_write"
    /\ \E written \in BOOLEAN :
          IF written
          THEN /\ sent' = Append(sent, DownloadCmd(curId, idx))
               /\ requested' = requested \cup {idx}
               /\ pc' = "dl_read" /\ err' = err /\ attempt' = attempt
          ELSE UNCHANGED <<sent, requested>> /\ ChannelError
    /\ UNCHANGED <<args, manifest, orderVars, runVars, mods, idx, dest, stag, loginSent, loggedIn, closed,
                   lastLine, pollVars, histVars>>

\* main.rs 164-179: one turn of the loop of steamcmd_download
DlRead ==
    /\ pc = "dl_read"
    /\ \E got \in ReadOutcomes(closed) :
          /\ closed' = (closed \/ got.kind = "eof")
          /\ readItems' = readItems \cup {idx}
          /\ IF got.kind = "ioerr" THEN ChannelError /\ lastLine' = got /\ sent' = sent
             ELSE LET m == MatchLine(StripNewline(Raw(got)), curId)
                  IN IF m = "success"
                     THEN /\ pc' = "poll" /\ err' = err /\ lastLine' = got
                          /\ attempt' = 0 /\ sent' = <<>>
                     ELSE IF m = "failed" THEN FailAttempt /\ lastLine' = got /\ sent' = sent
                     ELSE UNCHANGED <<pc, err, attempt, lastLine, sent>>
    /\ UNCHANGED <<args, manifest, orderVars, runVars, mods, idx, dest, stag, loginSent, loggedIn, requested,
                   pollVars, preDest, preStag, loginEof>>

\* steamcmd writes the item below steam_dir, at some moment after it was asked to
ClientWrites ==
    /\ pc \in {"dl_read", "poll"}
    /\ NewEntry \notin stag[curName].entries
    /\ stag' = [stag EXCEPT ![curName] =
                   [exists |-> TRUE, entries |-> stag[curName].entries \cup {NewEntry}]]
    /\ UNCHANGED <<pc, err, args, manifest, orderVars, runVars, mods, idx, dest, sentVars, closed, lastLine,
                   attempt, pollVars, histVars>>

\* the poll loop without its break
PollNextNoBreak(i, seen) ==
    IF i + 1 < PollChecks THEN [pc |-> "poll", i |-> i + 1]
    ELSE [pc |-> "place", i |-> i + 1]

\* the poll loop when a directory still missing at the last check is an error
PollNextFailsWhenAbsent(i, seen) ==
    IF seen THEN [pc |-> "place", i |-> i]
    ELSE IF i + 1 < PollChecks THEN [pc |-> "poll", i |-> i + 1]
    ELSE [pc |-> "aborted", i |-> i + 1]

\* main.rs 138-144: the loop variable after turn i, and whether the loop is left
PollNext(i, seen) ==
    IF seen THEN [pc |-> "place", i |-> i]
    ELSE IF i + 1 < PollChecks THEN [pc |-> "poll", i |-> i + 1]
    ELSE [pc |-> "place", i |-> i + 1]

\* main.rs 138-144: one turn of the poll loop: sleep i * 250 ms, then is_dir()
PollStep ==
    /\ pc = "poll"
    /\ waited' = waited + pollI * PollUnitMs
    /\ checks' = checks + 1
    /\ observed' = is_dir(stag[curName])
    /\ LET n == PollNext(pollI, is_dir(stag[curName]))
       IN pc' = n.pc /\ pollI' = n.i
    /\ UNCHANGED <<err, args, manifest, orderVars, runVars, mods, idx, dest, stag, sentVars, closed, lastLine,
                   attempt, histVars>>

\* main.rs 148-152: create_dir if needed, then copy_items
Place ==
    /\ pc = "place"
    /\ LET r == copy_items(curName, stag[curName], EnsureDir(dest[curName]))
       IN /\ dest' = [dest EXCEPT ![curName] = r.to]
          /\ IF r.ok THEN idx' = idx + 1 /\ pc' = "item" /\ err' = err
             ELSE idx' = idx /\ pc' = "aborted" /\ err' = "fs"
    /\ pollI' = 0 /\ waited' = 0 /\ checks' = 0 /\ observed' = FALSE
    /\ UNCHANGED <<args, manifest, orderVars, runVars, mods, stag, sentVars, closed, lastLine, attempt,
                   histVars>>

\* main.rs 155-157: the loop is over: Ok(())
Finish ==
    /\ pc = "item" /\ idx > Len(mods)
    /\ pc' = "done"
    /\ UNCHANGED <<err, args, manifest, orderVars, runVars, mods, idx, dest, stag, sentVars, closed, lastLine,
                   attempt, pollVars, histVars>>

Next ==
    \/ Startup \/ Spawn \/ LoginWrite \/ LoginRead \/ Load
    \/ ItemSkip \/ ItemReuse \/ ItemDownload
    \/ DlWrite \/ DlRead \/ ClientWrites \/ PollStep \/ Place \/ Finish

Spec == Init /\ [][Next]_vars

----------------------------------------------------------------------------
(* load_mods alone: any manifest of the pool, in the state main calls it in *)

InitLoad ==
    /\ pc = "load"
    /\ err = "none"
    /\ args \in [clean : BOOLEAN, mods_dir_is_dir : {TRUE},
                 steam_dir_is_dir : {TRUE}, modlist_is_file : {TRUE}]
    /\ manifest \in SeqsUpTo(LoadRowPool, MaxLoadRows)
    /\ mods = <<>>
    /\ idx = 0
    /\ dest = [n \in Names |-> Absent]
    /\ stag = [n \in Names |-> Absent]
    /\ loginSent = 1 /\ loggedIn = TRUE
    /\ sent = <<>> /\ requested = {}
    /\ closed = FALSE
    /\ lastLine = LoginOkLine
    /\ attempt = 0
    /\ pollI = 0 /\ waited = 0 /\ checks = 0 /\ observed = FALSE
    /\ readItems = {}
    /\ preDest = <<>> /\ preStag = <<>>
    /\ loginEof = FALSE
    /\ spawns = 1 /\ loaded = FALSE
    /\ fs0 = [dest |-> dest, stag |-> stag]
    /\ run = 1 /\ firstEnd = NoRun

NextLoad == Load

SpecLoad == InitLoad /\ [][NextLoad]_vars

\* The program is started again after a run that got past the checks of its
\* arguments has ended: the same manifest and roots, the filesystem as the first
\* run left it, --clean not given.  Every local of main starts afresh.
Restart ==
    /\ pc \in {"done", "aborted"}
    /\ err # "config"
    /\ run = 1
    /\ run' = 2
    /\ firstEnd' = [pc |-> pc, clean |-> args.clean, dest |-> dest, requested |-> requested]
    /\ fs0' = [dest |-> dest, stag |-> stag]
    /\ args' = [args EXCEPT !.clean = FALSE]
    /\ pc' = "start" /\ err' = "none"
    /\ mods' = <<>> /\ idx' = 0
    /\ loginSent' = 0 /\ loggedIn' = FALSE
    /\ sent' = <<>> /\ requested' = {}
    /\ closed' = FALSE
    /\ lastLine' = NoLine
    /\ attempt' = 0
    /\ pollI' = 0 /\ waited' = 0 /\ checks' = 0 /\ observed' = FALSE
    /\ readItems' = {}
    /\ preDest' = <<>> /\ preStag' = <<>>
    /\ loginEof' = FALSE
    /\ spawns' = 0 /\ loaded' = FALSE
    /\ UNCHANGED <<manifest, dest, stag>>

NextRerun ==
    \/ Next
    \/ Restart

SpecRerun == Init /\ [][NextRerun]_vars

\* rows of the manifests of the runs that look at how a bad row is handled:
\* one good row and the three ways in which a row can be bad
ManifestRowPool == {"ok12", "noname", "nomarker", "badid"}

\* a run whose arguments pass the checks, on such a manifest
InitManifest ==
    /\ pc = "start"
    /\ err = "none"
    /\ args \in {a \in [clean : BOOLEAN, mods_dir_is_dir : BOOLEAN,
                         steam_dir_is_dir : BOOLEAN, modlist_is_file : BOOLEAN] : ArgsOk(a)}
    /\ manifest \in SeqsUpTo(ManifestRowPool, MaxItems)
    /\ mods = <<>>
    /\ idx = 0
    /\ dest \in InitDirs(args.mods_dir_is_dir, manifest)
    /\ stag \in InitDirs(args.steam_dir_is_dir, manifest)
    /\ loginSent = 0 /\ loggedIn = FALSE
    /\ sent = <<>> /\ requested = {}
    /\ closed = FALSE
    /\ lastLine = NoLine
    /\ attempt = 0
    /\ pollI = 0 /\ waited = 0 /\ checks = 0 /\ observed = FALSE
    /\ readItems = {}
    /\ preDest = <<>> /\ preStag = <<>>
    /\ loginEof = FALSE
    /\ spawns = 0 /\ loaded = FALSE
    /\ fs0 = [dest |-> dest, stag |-> stag]
    /\ run = 1 /\ firstEnd = NoRun

SpecManifest == InitManifest /\ [][Next]_vars

----------------------------------------------------------------------------
(* Properties *)

\* the items the for loop has reached
ReachedItems == 1..Len(preDest)

NameOf(k) == DirName(mods[k].id)

HasEntries(d) == d.exists /\ d.entries # {}

\* C1: an item whose destination directory exists and is not empty when the loop
\* reaches it, with clean false, is skipped: no download command is written for
\* it, nothing is read from steamcmd for it, its destination and its staging
\* directory stay as they were, and the loop has moved on to the next item.
C1_NonEmptyDestinationIsSkipped ==
    \A k \in ReachedItems :
        (~args.clean /\ HasEntries(preDest[k])) =>
            /\ k \notin requested
            /\ k \notin readItems
            /\ dest[NameOf(k)] = preDest[k]
            /\ stag[NameOf(k)] = preStag[k]
            /\ idx > k
            /\ pc \in {"item", "dl_write", "dl_read", "poll", "place", "done", "aborted"}
            /\ (pc = "aborted" => err \in {"download", "fs"})

C1_Witness ==
    /\ pc = "done"
    /\ ~args.clean
    /\ \E k \in ReachedItems : HasEntries(preDest[k]) /\ HasEntries(preStag[k])

\* C2: while a download of id is outstanding, the read loop is left with success
\* only on a line that begins "Success. Downloaded item <id> to", and with the
\* failure of the download only on a line that begins "ERROR! Download item <id>
\* failed" (a read error aside); every other line, the success and failure lines
\* of another identifier included (12 against 123), leaves the loop reading.
C2_OnlyMatchingLineEndsRequest ==
    [][(pc = "dl_read" /\ pc' # "dl_read") =>
          /\ lastLine' \in {SuccessLine(curId), ErrorLine(curId), IoErr}
          /\ (pc' = "poll") = (lastLine' = SuccessLine(curId))]_vars

C2_Witness ==
    /\ pc = "poll"
    /\ curId = 12
    /\ lastLine = SuccessLine(12)
    /\ idx \in requested

\* C3: an item gets at most 3 download commands, none after its first success;
\* when the third attempt has failed the run is aborted with an error, and no later
\* item is reached: no command is written and no directory touched for it.
C3_ThreeAttemptsThenAbort ==
    /\ [](/\ Len(sent) <= 3
          /\ attempt <= 3
          /\ Len(sent) <= attempt + 1
          /\ (attempt = 3) = (pc = "aborted" /\ err = "download")
          /\ (pc = "aborted" /\ err = "download") =>
                /\ Len(preDest) = idx
                /\ \A k \in requested \cup readItems : k <= idx)
    /\ [][pc # "aborted"]_vars
    /\ [][(pc \in {"poll", "place"}) =>
             (sent' = sent /\ requested' = requested /\ readItems' = readItems)]_vars

C3_Witness ==
    /\ pc = "aborted" /\ err = "download"
    /\ Len(sent) = 3
    /\ idx < Len(mods)

\* C4: with clean true, when the first download command of an item is written
\* neither the destination nor the staging directory of its identifier exists:
\* those that existed when the loop reached the item have been removed.
C4_CleanRemovesBeforeDownload ==
    [][(args.clean /\ sent = <<>> /\ sent' # <<>>) =>
          /\ ~is_dir(dest[curName])
          /\ ~is_dir(stag[curName])]_vars

C4_Witness ==
    /\ args.clean
    /\ pc = "dl_read"
    /\ Len(sent) = 1
    /\ is_dir(preDest[idx]) /\ is_dir(preStag[idx])

\* C5: the poll loop checks the staging directory at most 10 times, sleeps
\* i * 250 ms before check number i (at most 11250 ms in all), and neither checks
\* nor sleeps again once a check has seen the directory.
C5_PollIsBoundedAndStops ==
    /\ [](checks <= 10 /\ waited <= 11250)
    /\ [][(checks' > checks \/ waited' > waited) =>
             /\ ~observed
             /\ checks' = checks + 1
             /\ waited' = waited + checks * 250]_vars

C5_Witness ==
    /\ pc = "place"
    /\ observed
    /\ checks = 3
    /\ waited = 750

\* C6: once a run has ended successfully, an item that had neither a destination
\* nor a staging directory has every entry of steam_dir/<id> in mods_dir/<id>, at
\* the same relative path.
C6_DestinationMirrorsStaging ==
    pc = "done" =>
        \A k \in ReachedItems :
            (~is_dir(preDest[k]) /\ ~is_dir(preStag[k])) =>
                /\ is_dir(dest[NameOf(k)])
                /\ \A p \in stag[NameOf(k)].entries : p \in dest[NameOf(k)].entries

C8_LoginOnceBeforeAnyDownload ==
    /\ [](/\ loginSent <= 1
          /\ (pc \in {"login_read", "load", "item", "dl_write", "dl_read", "poll",
                      "place", "done"} => loginSent = 1)
          /\ (loggedIn => loginSent = 1)
          /\ ((requested # {} \/ sent # <<>>) => loggedIn))
    /\ [][loginSent' # loginSent => loginSent = 0 /\ requested = {} /\ sent = <<>>]_vars
    /\ [][(~loggedIn /\ loggedIn') => lastLine' = LoginOkLine]_vars
    /\ [][(pc = "login_read" /\ pc' \notin {"login_read", "aborted"}) => loggedIn']_vars

C8_Witness ==
    /\ pc = "dl_read"
    /\ loginSent = 1
    /\ loggedIn
    /\ Len(sent) = 1

\* C9: when the login loop has read end-of-stream, the run has been aborted.
C9_EofAbortsLogin == (loginEof /\ ~loggedIn) => pc = "aborted"

\* C10: load_mods fails, with no item, on every manifest with a row that has no
\* name, or no "?id=", or no integer after "?id=".
C10_MalformedRowRejected ==
    (pc # "load" /\ \E i \in 1..Len(manifest) : RowTable[manifest[i]].shape # "wellformed")
        => (pc = "aborted" /\ mods = <<>>)

\* what does hold of load_mods: a row with no "?id=" or no integer after it is
\* rejected, and a row that only lacks a name is taken, with an empty name
LoadRejectsNoMarkerAndBadId ==
    (pc # "load" /\ \E i \in 1..Len(manifest) :
                        RowTable[manifest[i]].shape \in {"nomarker", "badid"})
        => (pc = "aborted" /\ mods = <<>>)

\* C11: restart is idempotent.  In a run started again without --clean on the
\* same manifest and the filesystem the first run left: no download command is
\* sent for an item whose destination directory was non-empty when the first run
\* ended; and if the first run ran without --clean and ended successfully, no
\* download command is sent at all and every destination directory stays as the
\* first run left it.
C11_RestartIsIdempotent ==
    run = 2 =>
        /\ ~args.clean
        /\ \A k \in requested : ~HasEntries(firstEnd.dest[DirName(mods[k].id)])
        /\ (firstEnd.pc = "done" /\ ~firstEnd.clean) =>
               (requested = {} /\ loginSent <= 1 /\ dest = firstEnd.dest)

\* a second run ends successfully, having asked for nothing that the first run
\* had downloaded and placed
C11_Witness ==
    /\ run = 2 /\ pc = "done"
    /\ firstEnd.pc = "done" /\ ~firstEnd.clean
    /\ firstEnd.requested # {}
    /\ requested = {}
    /\ dest = firstEnd.dest

\* after an aborted first run the second run downloads the item the first run
\* left unplaced, and only that one
C11_WitnessAfterAbort ==
    /\ run = 2 /\ firstEnd.pc = "aborted"
    /\ Len(mods) = 2
    /\ HasEntries(firstEnd.dest[DirName(mods[1].id)])
    /\ requested = {2}

\* C12: every run terminates once steamcmd has answered or has closed its
\* output: when the output stream has reached end-of-stream, the run is over or
\* it can still take a step that changes its state (no read loop is left
\* turning for ever on a closed stream).
C12_ClosedStreamEndsRun ==
    closed => (pc \in {"done", "aborted"} \/ ENABLED <<Next>>_vars)

\* C13: a write error or a read error during a download attempt is handled as a
\* Failed response: it uses up one of the item's three attempts, the request is
\* written again when an attempt is left, and the run aborts (with the download
\* error) only when it was the third attempt.
C13_ChannelErrorIsAFailedAttempt ==
    [][((pc = "dl_write" /\ pc' # "dl_read")
          \/ (pc = "dl_read" /\ pc' # "dl_read" /\ lastLine' = IoErr))
        => /\ attempt' = attempt + 1
           /\ idx' = idx
           /\ IF attempt + 1 < MaxAttempts
              THEN pc' = "dl_write" /\ err' = "none"
              ELSE pc' = "aborted" /\ err' = "download"]_vars

\* a read error and a write error have used two attempts of an item, and the
\* third is about to be made
C13_Witness ==
    /\ pc = "dl_write"
    /\ attempt = 2
    /\ Len(sent) = 1
    /\ lastLine = IoErr

\* the item a download command was last written for
LastRequested == CHOOSE m \in requested : \A k \in requested : k <= m

\* the line that ended the read loop before the first command of item idx: the
\* login marker, or the success line of the item requested before it
AnswerBeforeItem ==
    IF requested = {} THEN lastLine = LoginOkLine
    ELSE lastLine = SuccessLine(mods[LastRequested].id)

\* the parts of C14 that do not depend on how a retry comes about: the login
\* command is the first command, download commands follow the login marker and
\* the manifest order, and nothing is written or read for an item after its
\* success line
SessionOrder ==
    /\ (loginSent' # loginSent) => (loginSent = 0 /\ requested = {} /\ sent = <<>>)
    /\ (Len(sent') > Len(sent)) =>
          /\ loggedIn
          /\ requested' = requested \cup {idx}
          /\ \A k \in requested : k <= idx
          /\ (sent = <<>>) => AnswerBeforeItem
    /\ (pc \in {"poll", "place"}) =>
          /\ sent' = sent /\ requested' = requested
          /\ readItems' = readItems /\ loginSent' = loginSent

\* C14 (as stated): at most one request is outstanding.  A command is written
\* only after the matching response of the command before it has been read: the
\* login marker, or the success or failure line of that identifier; a retry in
\* particular follows the failure line of its item.  Items are requested in
\* manifest order and nothing is written or read for an item after its success
\* line.
C14_OneRequestOutstanding ==
    [][/\ SessionOrder
       /\ (Len(sent') > Len(sent) /\ sent # <<>>) => lastLine = ErrorLine(curId)]_vars

\* C14 (amended): as above, except that a retry is also written after the read
\* of the response ended in a channel error, the command before it then being
\* still unanswered.
C14_OneRequestUnlessReadError ==
    [][/\ SessionOrder
       /\ (Len(sent') > Len(sent) /\ sent # <<>>) => lastLine \in {ErrorLine(curId), IoErr}]_vars

\* the second item has been asked for twice, the second time after its failure
\* line, the first time after the success line of the first item
C14_Witness ==
    /\ pc = "dl_read"
    /\ idx = 2
    /\ requested = {1, 2}
    /\ Len(sent) = 2
    /\ lastLine = ErrorLine(curId)

\* C15: when the staging directory is still missing at the tenth check, the
\* poll loop ends without an error and the placement step is next; that step
\* makes sure the destination directory exists before it copies.
C15_PollExhaustedGoesToPlacement ==
    [][/\ (pc = "poll" /\ checks' = PollChecks /\ ~is_dir(stag[curName]))
          => (pc' = "place" /\ err' = "none" /\ dest' = dest /\ stag' = stag)
       /\ (pc = "place") => is_dir(dest'[curName])]_vars

\* the placement step is reached after ten checks that did not see the
\* staging directory
C15_Witness ==
    /\ pc = "place"
    /\ checks = PollChecks
    /\ ~observed
    /\ ~is_dir(stag[curName])
    /\ err = "none"

\* the manifest has a row that is not well formed
HasMalformedRow ==
    \E i \in 1..Len(manifest) : RowTable[manifest[i]].shape # "wellformed"

\* nothing has been done for any item: no item taken from the manifest, no
\* download command written, every directory as it was found
NoItemProcessed ==
    /\ mods = <<>> /\ idx = 0
    /\ requested = {} /\ sent = <<>>
    /\ dest = fs0.dest /\ stag = fs0.stag

\* C16: when a row of the manifest is malformed the run aborts where it loads
\* the manifest and no item is processed, the well-formed rows above the bad one
\* included: no download command is written and no destination or staging
\* directory is created, copied or removed.
C16_MalformedManifestAborts ==
    HasMalformedRow =>
        /\ pc \in {"start", "spawn", "login_write", "login_read", "load", "aborted"}
        /\ NoItemProcessed

\* what does hold: a manifest with a row that has no "?id=" or no integer after
\* it ends the run in load_mods with nothing done for any item
BadIdRowAbortsBeforeItems ==
    (\E i \in 1..Len(manifest) : RowTable[manifest[i]].shape \in {"nomarker", "badid"})
        => /\ pc \in {"start", "spawn", "login_write", "login_read", "load", "aborted"}
           /\ NoItemProcessed

\* C17 (as stated): the manifest is loaded first, then the session is opened,
\* then the login is done, then the items are gone through: when steamcmd has
\* been launched or the login command written, the manifest has been parsed.
C17_ManifestLoadedBeforeSession ==
    (spawns > 0 \/ loginSent > 0) => loaded

\* C17 (amended): the session is opened first, then the login is done, once,
\* then the manifest is loaded, then the items are gone through: when the
\* manifest has been parsed, steamcmd has been launched and has answered the one
\* login command; and no item is handled before the manifest has been parsed.
C17_SessionThenLoginThenManifest ==
    /\ spawns <= 1 /\ loginSent <= 1
    /\ (loginSent > 0) => (spawns = 1)
    /\ loggedIn => (loginSent = 1)
    /\ loaded => (spawns = 1 /\ loginSent = 1 /\ loggedIn)
    /\ (idx > 0 \/ mods # <<>> \/ requested # {} \/ preDest # <<>>) => loaded
    /\ (pc \in {"start", "spawn", "login_write", "login_read", "load"}) => ~loaded

\* the loop is at its first item: the manifest was loaded after the login
C17_Witness ==
    /\ pc = "item" /\ idx = 1
    /\ Len(mods) = 2
    /\ loaded /\ spawns = 1 /\ loginSent = 1 /\ loggedIn

\* C18: when the destination root or the staging root is not a directory, or
\* the manifest file is not there, the run fails at the checks of its arguments,
\* before steamcmd is launched: no session, no command, no manifest read, and
\* every directory as it was found.
C18_BadArgumentsStopBeforeLaunch ==
    (~args.mods_dir_is_dir \/ ~args.steam_dir_is_dir \/ ~args.modlist_is_file) =>
        /\ pc \in {"start", "aborted"}
        /\ (pc = "aborted") => (err = "config")
        /\ spawns = 0 /\ loginSent = 0 /\ ~loaded
        /\ requested = {} /\ sent = <<>>
        /\ dest = fs0.dest /\ stag = fs0.stag

\* a run with both roots in place and items already there has stopped at the
\* check of the manifest file
C18_Witness ==
    /\ pc = "aborted" /\ err = "config"
    /\ args.mods_dir_is_dir /\ args.steam_dir_is_dir /\ ~args.modlist_is_file
    /\ \E n \in Names : HasEntries(dest[n]) /\ HasEntries(stag[n])
    /\ spawns = 0

\* C19: when a run has ended successfully, the destination directory of every
\* identifier the manifest lists is a directory with at least one entry,
\* whether the item was skipped, copied from staging or downloaded, with or
\* without --clean.
C19_SuccessLeavesEveryDestinationFilled ==
    (pc = "done") =>
        /\ Len(mods) = Len(manifest)
        /\ \A i \in 1..Len(manifest) : \A id \in RowTable[manifest[i]].ids :
              /\ is_dir(dest[DirName(id)])
              /\ read_dir_count(dest[DirName(id)]) > 0
        /\ \A k \in 1..Len(mods) : HasEntries(dest[NameOf(k)])

\* a run without --clean has ended successfully, its first item skipped and its
\* second one downloaded into a destination that was empty or missing
C19_Witness ==
    /\ pc = "done"
    /\ ~args.clean
    /\ Len(mods) = 2
    /\ HasEntries(preDest[1])
    /\ ~HasEntries(preDest[2])
    /\ requested = {2}
    /\ HasEntries(dest[NameOf(2)])

\* no directory below the two roots goes away or loses an entry in this step
NothingRemoved ==
    \A n \in Names :
        /\ is_dir(dest[n]) => is_dir(dest'[n])
        /\ is_dir(stag[n]) => is_dir(stag'[n])
        /\ dest[n].entries \subseteq dest'[n].entries
        /\ stag[n].entries \subseteq stag'[n].entries

\* C20: without --clean a run removes nothing: every destination and staging
\* directory that was there when the run started is there in every state of the
\* run, with every entry it had, and each step only adds entries.
C20_NothingRemovedWithoutClean ==
    /\ [](~args.clean =>
            \A n \in Names :
                /\ is_dir(fs0.dest[n]) => is_dir(dest[n])
                /\ is_dir(fs0.stag[n]) => is_dir(stag[n])
                /\ fs0.dest[n].entries \subseteq dest[n].entries)
    /\ [][~args.clean => NothingRemoved]_vars

\* a run without --clean has ended, having added entries to a destination
\* directory that was there, empty, at the start and having left in place a
\* non-empty one
C20_Witness ==
    /\ ~args.clean
    /\ pc = "done"
    /\ \E n \in Names : fs0.dest[n] = EmptyDir /\ HasEntries(dest[n])
    /\ \E n \in Names : HasEntries(fs0.dest[n]) /\ dest[n] = fs0.dest[n]

====
